---- MODULE Spec2Model ----
(***************************************************************************)
(* Clinic administration backend (adityafeb22/hospital-management-system): *)
(* the access-control, approval and scheduling-conflict logic of the route *)
(* handlers, over an abstract relational store.                            *)
(*                                                                         *)
(* The repository holds three deployments of the same routes:              *)
(*   "sqlite" : SQLite store, custom JWT   (routes/appointments.js, ...)   *)
(*   "users"  : Supabase store, users table, custom JWT                    *)
(*   "auth"   : Supabase store, Supabase Auth sessions, pending approval   *)
(* A behaviour runs one deployment: variant is chosen in Init and never    *)
(* changes.                                                                *)
(***************************************************************************)
EXTENDS Integers, Sequences, FiniteSets, TLC

VARIABLES
    variant,        \* which deployment this behaviour runs
    users,          \* identities: uid -> [role, email, password]
    profiles,       \* "auth" only: uids that have a profiles row
    patients,       \* patient records: id -> [user_id, name, status, last_visit]
    appointments,   \* id -> [patient_id, date, time, status]
    fees,           \* id -> [patient_id, amount, service, payment_status]
    diagnostics,    \* id -> [patient_id, file_path]
    blobs,          \* object storage: the file paths that hold a blob
    tokens,         \* credentials the token signer / identity provider issued
    nextId,         \* the store's auto-increment counters, one per table
    inflight,       \* POST /appointments requests between their statements
    last            \* the last request handled and its response

vars == <<variant, users, profiles, patients, appointments, fees, diagnostics,
          blobs, tokens, nextId, inflight, last>>

-----------------------------------------------------------------------------
(* Bounds of the model *)

MaxAppts == 2       \* appointment rows ever inserted
MaxUsers == 3       \* identities ever created, the doctor included
MaxRequests == 2    \* concurrent POST /appointments requests
MaxFees == 2        \* fee rows ever inserted
MaxDiags == 1       \* diagnostic uploads that ever reach object storage

-----------------------------------------------------------------------------
(* Values *)

Variants == {"sqlite", "users", "auth"}
JwtVariants == {"sqlite", "users"}

NoId == 0           \* JS null / undefined / absent id (ids start at 1)
Doctor == 1         \* the doctor identity every deployment starts with

Dates == {"2024-03-01"}
Times == {"10:00"}
Missing == ""       \* an absent body field (falsy in JS)

ApptStatuses == {"scheduled", "completed", "cancelled"}

\* Bearer credentials a request may carry.
NoToken == [sub |-> NoId, role |-> "none", patientId |-> NoId]
BadToken == [sub |-> NoId, role |-> "forged", patientId |-> NoId]

NoUser == [id |-> NoId, role |-> "none", patientId |-> NoId]

\* f without the keys in S
Drop(f, S) == [k \in DOMAIN f \ S |-> f[k]]

\* f with key k bound to v
Put(f, k, v) == [x \in DOMAIN f \cup {k} |-> IF x = k THEN v ELSE f[x]]

Min(S) == CHOOSE x \in S : \A y \in S : x <= y

-----------------------------------------------------------------------------
(* Store client result shapes *)

\* supabase-js .single(): the row when exactly one row matches, otherwise
\* data is null (and error is set).
Single(ids) == IF Cardinality(ids) = 1 THEN CHOOSE x \in ids : TRUE ELSE NoId

\* supabase-js .maybeSingle(): the row when exactly one matches; null without
\* error when none matches; null WITH an error when several match.
MaybeSingle(ids) == IF Cardinality(ids) = 1 THEN CHOOSE x \in ids : TRUE ELSE NoId

\* sqlite db.get(): the first matching row, undefined when none matches.
DbGet(ids) == IF ids = {} THEN NoId ELSE Min(ids)

-----------------------------------------------------------------------------
(* Authorization gate *)

PatientsOfUser(uid) == {p \in DOMAIN patients : patients[p].user_id = uid}

\* routes/auth.js authenticateToken: verifies the JWT and passes its payload on.
JwtAuthenticateToken(tok) ==
    IF tok = NoToken THEN [ok |-> FALSE, status |-> 401, user |-> NoUser]
    ELSE IF tok \notin tokens THEN [ok |-> FALSE, status |-> 403, user |-> NoUser]
    ELSE [ok |-> TRUE, status |-> 200,
          user |-> [id |-> tok.sub, role |-> tok.role, patientId |-> tok.patientId]]

\* middleware/auth.js authenticateToken: asks the identity provider, then loads
\* the profile and, for a patient, the id of the linked patient record.
SupabaseAuthenticateToken(tok) ==
    IF tok = NoToken THEN [ok |-> FALSE, status |-> 401, user |-> NoUser]
    ELSE IF tok \notin tokens \/ tok.sub \notin DOMAIN users
         THEN [ok |-> FALSE, status |-> 403, user |-> NoUser]
    ELSE IF tok.sub \notin profiles
         THEN [ok |-> FALSE, status |-> 403, user |-> NoUser]
    ELSE LET role == users[tok.sub].role
             patient == Single(PatientsOfUser(tok.sub))
         IN  [ok |-> TRUE, status |-> 200,
              user |-> [id |-> tok.sub, role |-> role,
                        patientId |-> IF role = "patient" THEN patient ELSE NoId]]

authenticateToken(tok) ==
    IF variant \in JwtVariants THEN JwtAuthenticateToken(tok)
    ELSE SupabaseAuthenticateToken(tok)

\* Credentials a client can put in a request.
Credentials == tokens \cup {NoToken, BadToken}

-----------------------------------------------------------------------------
(* The response record *)

\* JavaScript values as the handler sees them: req.user.patientId is null or a
\* number read from the store, a path parameter is always a string.
JsNull == [t |-> "null", n |-> 0, s |-> ""]
JsNum(n) == [t |-> "number", n |-> n, s |-> ""]
JsStr(str) == [t |-> "string", n |-> 0, s |-> str]

\* The credentials member of a response body that has none.
NoCredentials == [email |-> "", password |-> ""]

Request(op, user) ==
    [op |-> op, status |-> 0, role |-> user.role, token |-> NoToken,
     credentials |-> NoCredentials, totalRevenue |-> JsNull,
     pendingPayments |-> JsNull, rows |-> {}]

NoRequest == Request("none", NoUser)

-----------------------------------------------------------------------------
(* Appointments: routes/appointments.js (sqlite) and the Supabase port *)

\* The conflict query without its status filter: any row at the slot matches.
ScheduledAtAnyStatus(date, time) ==
    {a \in DOMAIN appointments :
        /\ appointments[a].date = date
        /\ appointments[a].time = time}

\* SELECT id FROM appointments WHERE date = ? AND time = ? AND status = 'scheduled'
ScheduledAt(date, time) ==
    {a \in DOMAIN appointments :
        /\ appointments[a].date = date
        /\ appointments[a].time = time
        /\ appointments[a].status = "scheduled"}

\* The conflict query of POST /appointments: the row it hands to `if (conflict)`.
ConflictRow(date, time) ==
    IF variant = "sqlite" THEN DbGet(ScheduledAt(date, time))
    ELSE MaybeSingle(ScheduledAt(date, time))

\* patient_id REFERENCES patients(id). The SQLite connection is opened without
\* PRAGMA foreign_keys = ON, so SQLite does not enforce the reference; the
\* Supabase store refuses a row whose patient does not exist.
ForeignKeyOk(patientId) == variant = "sqlite" \/ patientId \in DOMAIN patients

\* The row INSERT INTO appointments (patient_id, date, time, reason) creates:
\* status takes the column default.
NewAppointment(patientId, date, time) ==
    [patient_id |-> patientId, date |-> date, time |-> time, status |-> "scheduled"]

\* An insert guarded by a uniqueness constraint on scheduled (date, time).
InsertAppointmentStatusUnique(patientId, date, time) ==
    IF ScheduledAt(date, time) # {} THEN 500
    ELSE IF ForeignKeyOk(patientId) THEN 201 ELSE 500

\* The outcome of the INSERT statement: the table has no uniqueness constraint
\* on (date, time), so only the foreign key can refuse the row.
InsertAppointmentStatus(patientId, date, time) ==
    IF ForeignKeyOk(patientId) THEN 201 ELSE 500

\* The target patient taken from the request body whoever asks.
TargetPatientFromBody(user, patient_id) == patient_id

\* const patientId = req.user.role === 'patient' ? req.user.patientId : patient_id
TargetPatient(user, patient_id) ==
    IF user.role = "patient" THEN user.patientId ELSE patient_id

\* The checks of POST /appointments with the slot conflict looked at first.
PostAppointmentStatusConflictFirst(user, patient_id, date, time) ==
    IF ConflictRow(date, time) # NoId THEN 409
    ELSE IF date = Missing \/ time = Missing THEN 400
    ELSE IF TargetPatient(user, patient_id) = NoId THEN 400
    ELSE InsertAppointmentStatus(TargetPatient(user, patient_id), date, time)

\* The status POST /appointments answers with, in the order the handler decides.
PostAppointmentStatus(user, patient_id, date, time) ==
    IF date = Missing \/ time = Missing THEN 400
    ELSE IF TargetPatient(user, patient_id) = NoId THEN 400
    ELSE IF ConflictRow(date, time) # NoId THEN 409
    ELSE InsertAppointmentStatus(TargetPatient(user, patient_id), date, time)

\* POST /appointments, handled without another request in between.
PostAppointment(tok, patient_id, date, time) ==
    LET g == authenticateToken(tok)
        req == Request("POST /appointments", g.user)
        status == IF g.ok THEN PostAppointmentStatus(g.user, patient_id, date, time)
                  ELSE g.status
    IN  /\ status = 201 => nextId.appointments <= MaxAppts
        /\ IF status = 201
           THEN /\ appointments' = Put(appointments, nextId.appointments,
                        NewAppointment(TargetPatient(g.user, patient_id), date, time))
                /\ nextId' = [nextId EXCEPT !.appointments = @ + 1]
                /\ last' = [req EXCEPT !.status = 201]
           ELSE /\ last' = [req EXCEPT !.status = status]
                /\ UNCHANGED <<appointments, nextId>>
        /\ UNCHANGED <<fees, diagnostics, blobs>>
        /\ UNCHANGED <<variant, users, profiles, patients, tokens, inflight>>

\* Any status of the request body let through.
StatusAllowedAny(status) == TRUE

\* ['scheduled', 'completed', 'cancelled'].includes(status)
StatusAllowed(status) == status \in ApptStatuses

\* PUT /appointments/:id (doctor only): set the status of one row.
PutAppointment(tok, id, status) ==
    LET g == authenticateToken(tok)
        req == Request("PUT /appointments/:id", g.user)
    IN  /\ IF ~g.ok THEN
                /\ last' = [req EXCEPT !.status = g.status]
                /\ UNCHANGED appointments
           ELSE IF g.user.role # "doctor" THEN
                /\ last' = [req EXCEPT !.status = 403]
                /\ UNCHANGED appointments
           ELSE IF ~StatusAllowed(status) THEN
                /\ last' = [req EXCEPT !.status = 400]
                /\ UNCHANGED appointments
           ELSE IF id \notin DOMAIN appointments THEN
                /\ last' = [req EXCEPT !.status = 404]
                /\ UNCHANGED appointments
           ELSE /\ appointments' = [appointments EXCEPT ![id].status = status]
                /\ last' = [req EXCEPT !.status = 200]
        /\ UNCHANGED <<fees, diagnostics, blobs>>
        /\ UNCHANGED <<variant, users, profiles, patients, tokens, nextId, inflight>>

\* DELETE /appointments/:id (doctor only).
DeleteAppointment(tok, id) ==
    LET g == authenticateToken(tok)
        req == Request("DELETE /appointments/:id", g.user)
    IN  /\ IF ~g.ok THEN
                /\ last' = [req EXCEPT !.status = g.status]
                /\ UNCHANGED appointments
           ELSE IF g.user.role # "doctor" THEN
                /\ last' = [req EXCEPT !.status = 403]
                /\ UNCHANGED appointments
           ELSE /\ appointments' = Drop(appointments, {id})
                /\ last' = [req EXCEPT !.status = 200]
        /\ UNCHANGED <<fees, diagnostics, blobs>>
        /\ UNCHANGED <<variant, users, profiles, patients, tokens, nextId, inflight>>

-----------------------------------------------------------------------------
(* Identities, patient records and credentials of a provisioned clinic *)

User(role, email, password) == [role |-> role, email |-> email, password |-> password]

\* bcrypt.hash(password, 10): a one-way digest, never the password itself. The
\* salt is left out: all that is used of it is that bcrypt.compare accepts
\* exactly the password the digest was made from.
BcryptHash(password) == "$2b$10$" \o password

\* bcrypt.compare(password, hash)
BcryptCompare(password, hash) ==
    /\ Len(hash) = Len(password) + 7
    /\ SubSeq(hash, 1, 7) = "$2b$10$"
    /\ SubSeq(hash, 8, Len(hash)) = password

\* What the users table keeps of a password: the JWT deployments store the
\* bcrypt digest, the Supabase Auth provider keeps the secret to itself.
StoredPassword(password) ==
    IF variant \in JwtVariants THEN BcryptHash(password) ELSE password

\* A patient record; status is 'pending' or 'active' in the Supabase Auth
\* deployment, the other deployments have no such column.
Patient(user_id, name, status) ==
    [user_id |-> user_id, name |-> name, status |-> status, last_visit |-> Missing]

\* The token login signs for an identity: the JWT payload {id, role, patientId},
\* or the provider's session for the identity.
TokenFor(uid) ==
    IF variant \in JwtVariants
    THEN [sub |-> uid, role |-> users[uid].role,
          patientId |-> IF users[uid].role # "patient" THEN NoId
                        ELSE IF variant = "sqlite" THEN DbGet(PatientsOfUser(uid))
                        ELSE Single(PatientsOfUser(uid))]
    ELSE [sub |-> uid, role |-> "session", patientId |-> NoId]

EmptyStore ==
    /\ users = (Doctor :> User("doctor", "jahnavi@clinic.com",
                                StoredPassword("jahnavi123")))
    /\ profiles = IF variant = "auth" THEN {Doctor} ELSE {}
    /\ patients = << >>
    /\ appointments = << >>
    /\ fees = << >>
    /\ diagnostics = << >>
    /\ blobs = {}
    /\ tokens = {}
    /\ nextId = [users |-> 2, patients |-> 1, appointments |-> 1, fees |-> 1,
                 diagnostics |-> 1, blobs |-> 1]
    /\ inflight = << >>
    /\ last = NoRequest

\* The clinic after the doctor added two patients and everyone logged in:
\* identities 2 and 3 own the patient records 1 and 2.
ProvisionedClinic ==
    /\ users = (Doctor :> User("doctor", "jahnavi@clinic.com",
                                StoredPassword("jahnavi123")))
               @@ (2 :> User("patient", "a@patient.com", StoredPassword("3210123")))
               @@ (3 :> User("patient", "b@patient.com", StoredPassword("3211123")))
    /\ profiles = IF variant = "auth" THEN {Doctor, 2, 3} ELSE {}
    /\ patients = (1 :> Patient(2, "Asha", IF variant = "auth" THEN "active" ELSE "none"))
                  @@ (2 :> Patient(3, "Bala", IF variant = "auth" THEN "active" ELSE "none"))
    /\ appointments = << >>
    /\ fees = << >>
    /\ diagnostics = << >>
    /\ blobs = {}
    /\ tokens = {TokenFor(u) : u \in {Doctor, 2, 3}}
    /\ nextId = [users |-> 4, patients |-> 3, appointments |-> 1, fees |-> 1,
                 diagnostics |-> 1, blobs |-> 1]
    /\ inflight = << >>
    /\ last = NoRequest

-----------------------------------------------------------------------------
(* Appointment routes on a provisioned clinic, one request at a time *)

ApptIds == 1..(MaxAppts + 1)
PatientIdInputs == {NoId} \cup DOMAIN patients \cup {nextId.patients}

\* The "users" deployment runs the appointment code of "auth" behind the gate
\* of "sqlite"; with the identities fixed it adds no behaviour of its own here.
InitAppt ==
    /\ variant \in {"sqlite", "auth"}
    /\ ProvisionedClinic

NextAppt ==
    \/ \E tok \in tokens, p \in PatientIdInputs,
          d \in Dates \cup {Missing}, t \in Times \cup {Missing} :
            PostAppointment(tok, p, d, t)
    \/ \E tok \in tokens, id \in ApptIds, s \in ApptStatuses \cup {"bogus"} :
            PutAppointment(tok, id, s)
    \/ \E tok \in tokens, id \in ApptIds : DeleteAppointment(tok, id)

SpecAppt == InitAppt /\ [][NextAppt]_vars

-----------------------------------------------------------------------------
(* Claims about the appointment routes, checked under SpecAppt *)

RowsAt(date, time, statuses) ==
    {a \in DOMAIN appointments :
        /\ appointments[a].date = date
        /\ appointments[a].time = time
        /\ appointments[a].status \in statuses}

NewestAppt == nextId.appointments - 1

\* C1: in every reachable state, any authenticated POST /appointments with a
\* resolvable target patient for a slot that holds a 'scheduled' appointment
\* is answered 409 (and so inserts nothing), whoever asks and for whomever.
C1_SlotConflictRejected ==
    \A tok \in tokens, p \in PatientIdInputs, d \in Dates, t \in Times :
        LET g == authenticateToken(tok) IN
        (g.ok /\ TargetPatient(g.user, p) # NoId /\ RowsAt(d, t, {"scheduled"}) # {})
            => PostAppointmentStatus(g.user, p, d, t) = 409

\* C2: at most one 'scheduled' appointment exists for a (date, time) pair.
C2_OneScheduledPerSlot ==
    \A d \in Dates, t \in Times : Cardinality(RowsAt(d, t, {"scheduled"})) <= 1

\* C4: a POST /appointments by an authenticated principal for an existing
\* patient, at a slot whose appointments are all cancelled or completed (and
\* there is one), is answered 201 and inserts a scheduled row for that slot.
C4_CancelledNeverBlocks ==
    [][\A d \in Dates, t \in Times :
        ( /\ RowsAt(d, t, {"cancelled", "completed"}) # {}
          /\ RowsAt(d, t, {"scheduled"}) = {} )
        => \A tok \in tokens, p \in PatientIdInputs :
            LET g == authenticateToken(tok)
                target == IF g.user.role = "patient" THEN g.user.patientId ELSE p
            IN  ( /\ g.ok
                  /\ target \in DOMAIN patients
                  /\ PostAppointment(tok, p, d, t) )
                => ( /\ last'.status = 201
                     /\ DOMAIN appointments' =
                            DOMAIN appointments \cup {nextId.appointments}
                     /\ appointments'[nextId.appointments] =
                            [patient_id |-> target, date |-> d, time |-> t,
                             status |-> "scheduled"] )
      ]_vars

\* C4 witness: the last request was a booking answered 201, and the row it
\* created shares its slot with an earlier cancelled or completed appointment.
C4_Witness ==
    /\ last.op = "POST /appointments"
    /\ last.status = 201
    /\ NewestAppt \in DOMAIN appointments
    /\ appointments[NewestAppt].status = "scheduled"
    /\ \E a \in DOMAIN appointments :
        /\ a < NewestAppt
        /\ appointments[a].date = appointments[NewestAppt].date
        /\ appointments[a].time = appointments[NewestAppt].time
        /\ appointments[a].status \in {"cancelled", "completed"}

\* C10: whenever a patient principal's POST /appointments creates a row, the
\* row's patient_id is the principal's own patientId, whatever the body's
\* patient_id; so a row for anybody else was created by a doctor.
C10_PatientBooksForSelf ==
    [][\A tok \in tokens, p \in PatientIdInputs, d \in Dates, t \in Times :
        LET g == authenticateToken(tok) IN
        ( /\ g.ok
          /\ g.user.role = "patient"
          /\ last'.status = 201
          /\ PostAppointment(tok, p, d, t) )
        => ( /\ nextId.appointments \in DOMAIN appointments'
             /\ appointments'[nextId.appointments].patient_id = g.user.patientId )
      ]_vars

\* C10 witness: a patient principal has just booked, and the appointment is
\* their own.
C10_Witness ==
    /\ last.op = "POST /appointments"
    /\ last.status = 201
    /\ last.role = "patient"
    /\ NewestAppt \in DOMAIN appointments
    /\ \E tok \in tokens :
        /\ tok.role \in {"patient", "session"}
        /\ authenticateToken(tok).user.role = "patient"
        /\ authenticateToken(tok).user.patientId = appointments[NewestAppt].patient_id

-----------------------------------------------------------------------------
(* POST /appointments statement by statement: requests overlap *)

RequestIds == 1..MaxRequests

\* Lines 58-71: the gate and the two validations touch no appointment row.
ReceiveAppointment(r, tok, patient_id, date, time) ==
    LET g == authenticateToken(tok)
        status == IF ~g.ok THEN g.status
                  ELSE IF date = Missing \/ time = Missing THEN 400
                  ELSE IF TargetPatient(g.user, patient_id) = NoId THEN 400
                  ELSE 0
    IN  /\ r \notin DOMAIN inflight
        /\ inflight' = Put(inflight, r,
                [pc |-> IF status = 0 THEN "check" ELSE "done",
                 patientId |-> IF g.ok THEN TargetPatient(g.user, patient_id) ELSE NoId,
                 date |-> date, time |-> time, status |-> status])
        /\ UNCHANGED <<fees, diagnostics, blobs>>
        /\ UNCHANGED <<variant, users, profiles, patients, appointments, tokens,
                       nextId, last>>

\* Lines 73-80: the conflict query, one statement.
CheckConflict(r) ==
    /\ r \in DOMAIN inflight
    /\ inflight[r].pc = "check"
    /\ inflight' = [inflight EXCEPT ![r] =
            IF ConflictRow(inflight[r].date, inflight[r].time) # NoId
            THEN [@ EXCEPT !.pc = "done", !.status = 409]
            ELSE [@ EXCEPT !.pc = "insert"]]
    /\ UNCHANGED <<fees, diagnostics, blobs>>
    /\ UNCHANGED <<variant, users, profiles, patients, appointments, tokens,
                   nextId, last>>

\* Lines 82-88: the insert, one statement, and the response.
InsertAppointment(r) ==
    LET q == inflight[r]
        status == InsertAppointmentStatus(q.patientId, q.date, q.time)
    IN  /\ r \in DOMAIN inflight
        /\ q.pc = "insert"
        /\ status = 201 => nextId.appointments <= MaxAppts
        /\ inflight' = [inflight EXCEPT ![r] = [@ EXCEPT !.pc = "done", !.status = status]]
        /\ IF status = 201
           THEN /\ appointments' = Put(appointments, nextId.appointments,
                        NewAppointment(q.patientId, q.date, q.time))
                /\ nextId' = [nextId EXCEPT !.appointments = @ + 1]
           ELSE UNCHANGED <<appointments, nextId>>
        /\ UNCHANGED <<fees, diagnostics, blobs>>
        /\ UNCHANGED <<variant, users, profiles, patients, tokens, last>>

InitRace ==
    /\ variant \in {"sqlite", "auth"}
    /\ ProvisionedClinic

NextRace ==
    \/ \E r \in RequestIds, tok \in tokens, p \in PatientIdInputs,
          d \in Dates \cup {Missing}, t \in Times \cup {Missing} :
            ReceiveAppointment(r, tok, p, d, t)
    \/ \E r \in RequestIds : CheckConflict(r)
    \/ \E r \in RequestIds : InsertAppointment(r)

SpecRace == InitRace /\ [][NextRace]_vars

\* C3: a request that has passed the conflict check is not stopped by what
\* other requests did to its slot in the meantime: its insert goes through and
\* it is answered 201 (only a missing patient row can refuse the insert).
C3_InsertAfterCheckUnconditional ==
    [][\A r \in RequestIds :
        ( /\ r \in DOMAIN inflight
          /\ inflight[r].pc = "insert"
          /\ inflight'[r].pc = "done"
          /\ inflight[r].patientId \in DOMAIN patients )
        => ( /\ inflight'[r].status = 201
             /\ appointments' = Put(appointments, nextId.appointments,
                    [patient_id |-> inflight[r].patientId, date |-> inflight[r].date,
                     time |-> inflight[r].time, status |-> "scheduled"]) )
      ]_vars

\* C3 witness: two requests for one slot both answered 201, and the slot holds
\* two scheduled appointments.
C3_DoubleBooked ==
    \E r1, r2 \in DOMAIN inflight :
        /\ r1 # r2
        /\ inflight[r1].status = 201
        /\ inflight[r2].status = 201
        /\ inflight[r1].date = inflight[r2].date
        /\ inflight[r1].time = inflight[r2].time
        /\ Cardinality(RowsAt(inflight[r1].date, inflight[r1].time, {"scheduled"})) >= 2

-----------------------------------------------------------------------------
(* Supabase Auth deployment: signup, login, verify, approval, deletion *)

Emails == {"asha@mail.com", "ravi@mail.com"}
Passwords == {"secret1"}
Names == {"Asha"}
DoctorEmail == "jahnavi@clinic.com"
DoctorPassword == "jahnavi123"

UsersWithEmail(email) == {u \in DOMAIN users : users[u].email = email}

\* auth.signInWithPassword: the identity whose email and password match.
SignInWithPassword(email, password) ==
    Single({u \in UsersWithEmail(email) : users[u].password = password})

\* The pending test that holds back every identity with a patient record,
\* approved or not.
PendingWhateverStatus(uid) == PatientsOfUser(uid) # {}

\* The pending test no login or verify lets pass.
PendingNever(uid) == FALSE

\* const { data: patient } = ...from('patients').select('id, status')
\*     .eq('user_id', uid).single();  patient?.status === 'pending'
PendingPatient(uid) ==
    LET patient == Single(PatientsOfUser(uid))
    IN  patient # NoId /\ patients[patient].status = "pending"

\* POST /api/auth/signup: an identity, its profile and a pending patient record.
\* The results of the two inserts are not looked at: profileOk and patientOk
\* say whether the store accepted them.
Signup(name, email, password, profileOk, patientOk) ==
    LET req == Request("POST /auth/signup", NoUser)
        uid == nextId.users
    IN  /\ variant = "auth"
        /\ IF name = Missing \/ email = Missing \/ password = Missing THEN
                /\ last' = [req EXCEPT !.status = 400]
                /\ UNCHANGED <<users, profiles, patients, nextId>>
           ELSE IF UsersWithEmail(email) # {} THEN
                /\ last' = [req EXCEPT !.status = 400]
                /\ UNCHANGED <<users, profiles, patients, nextId>>
           ELSE /\ uid <= MaxUsers
                /\ users' = Put(users, uid, User("patient", email, password))
                /\ profiles' = IF profileOk THEN profiles \cup {uid} ELSE profiles
                /\ patients' = IF patientOk
                               THEN Put(patients, nextId.patients,
                                        Patient(uid, name, "pending"))
                               ELSE patients
                /\ nextId' = [nextId EXCEPT !.users = @ + 1,
                                !.patients = IF patientOk THEN @ + 1 ELSE @]
                /\ last' = [req EXCEPT !.status = 201]
        /\ UNCHANGED <<fees, diagnostics, blobs>>
        /\ UNCHANGED <<variant, appointments, tokens, inflight>>

\* POST /api/auth/login. The provider issues the session at signInWithPassword,
\* before the handler looks at the profile and the patient record.
Login(email, password) ==
    LET req == Request("POST /auth/login", NoUser)
        uid == SignInWithPassword(email, password)
    IN  /\ variant = "auth"
        /\ IF email = Missing \/ password = Missing THEN
                /\ last' = [req EXCEPT !.status = 400]
                /\ UNCHANGED tokens
           ELSE IF uid = NoId THEN
                /\ last' = [req EXCEPT !.status = 401]
                /\ UNCHANGED tokens
           ELSE /\ tokens' = tokens \cup {TokenFor(uid)}
                /\ IF uid \notin profiles THEN
                        last' = [req EXCEPT !.status = 401]
                   ELSE IF users[uid].role = "patient" /\ PendingPatient(uid) THEN
                        last' = [req EXCEPT !.status = 403, !.role = "patient"]
                   ELSE last' = [req EXCEPT !.status = 200, !.role = users[uid].role,
                                            !.token = TokenFor(uid)]
        /\ UNCHANGED <<fees, diagnostics, blobs>>
        /\ UNCHANGED <<variant, users, profiles, patients, appointments, nextId,
                       inflight>>

\* GET /api/auth/verify: session restore.
Verify(tok) ==
    LET req == Request("GET /auth/verify", NoUser)
        uid == tok.sub
        hasProfile == uid \in profiles
    IN  /\ variant = "auth"
        /\ IF tok = NoToken THEN last' = [req EXCEPT !.status = 401]
           ELSE IF tok \notin tokens \/ uid \notin DOMAIN users THEN
                last' = [req EXCEPT !.status = 403]
           ELSE IF hasProfile /\ users[uid].role = "patient" /\ PendingPatient(uid) THEN
                last' = [req EXCEPT !.status = 403, !.role = "patient"]
           ELSE IF ~hasProfile THEN last' = [req EXCEPT !.status = 403]
           ELSE last' = [req EXCEPT !.status = 200, !.role = users[uid].role]
        /\ UNCHANGED <<fees, diagnostics, blobs>>
        /\ UNCHANGED <<variant, users, profiles, patients, appointments, tokens,
                       nextId, inflight>>

\* What the store drops with the patient rows in gone: ON DELETE CASCADE from a
\* patient to the appointments, fees and diagnostic rows that reference it.
\* Object storage is no part of the store: the blobs stay.
CascadeDeletePatients(gone) ==
    /\ patients' = Drop(patients, gone)
    /\ appointments' = Drop(appointments,
            {a \in DOMAIN appointments : appointments[a].patient_id \in gone})
    /\ fees' = Drop(fees, {f \in DOMAIN fees : fees[f].patient_id \in gone})
    /\ diagnostics' = Drop(diagnostics,
            {d \in DOMAIN diagnostics : diagnostics[d].patient_id \in gone})

\* What the store drops when the identities in uids go: ON DELETE CASCADE from
\* the identity to its profile and patient records, and on from those.
CascadeDeleteUsers(uids) ==
    /\ users' = Drop(users, uids)
    /\ profiles' = profiles \ uids
    /\ CascadeDeletePatients({p \in DOMAIN patients : patients[p].user_id \in uids})

\* PUT /api/patients/:id/approve (doctor only): pending -> active.
ApprovePatient(tok, id) ==
    LET g == authenticateToken(tok)
        req == Request("PUT /patients/:id/approve", g.user)
    IN  /\ variant = "auth"
        /\ IF ~g.ok THEN
                /\ last' = [req EXCEPT !.status = g.status]
                /\ UNCHANGED patients
           ELSE IF g.user.role # "doctor" THEN
                /\ last' = [req EXCEPT !.status = 403]
                /\ UNCHANGED patients
           ELSE IF id \notin DOMAIN patients \/ patients[id].status # "pending" THEN
                /\ last' = [req EXCEPT !.status = 404]
                /\ UNCHANGED patients
           ELSE /\ patients' = [patients EXCEPT ![id].status = "active"]
                /\ last' = [req EXCEPT !.status = 200]
        /\ UNCHANGED <<fees, diagnostics, blobs>>
        /\ UNCHANGED <<variant, users, profiles, appointments, tokens, nextId,
                       inflight>>

\* DELETE /api/patients/:id (doctor only): deletes the owning identity and
\* lets the store cascade. deleteOk says whether the store (or the identity
\* provider) carried the delete out: "users" throws on the error it gets back,
\* "auth" awaits the call and never looks at its result.
DeletePatient(tok, id, deleteOk) ==
    LET g == authenticateToken(tok)
        req == Request("DELETE /patients/:id", g.user)
        records == <<users, profiles, patients, appointments, fees, diagnostics>>
    IN  /\ variant \in {"users", "auth"}
        /\ IF ~g.ok THEN
                /\ last' = [req EXCEPT !.status = g.status]
                /\ UNCHANGED records
           ELSE IF g.user.role # "doctor" THEN
                /\ last' = [req EXCEPT !.status = 403]
                /\ UNCHANGED records
           ELSE IF id \notin DOMAIN patients THEN
                /\ last' = [req EXCEPT !.status = 404]
                /\ UNCHANGED records
           ELSE IF patients[id].user_id = NoId THEN
                \* no linked identity: "auth" deletes the patient row itself,
                \* "users" asks to delete the user with id null, which the
                \* store refuses
                IF variant = "auth"
                THEN /\ IF deleteOk
                        THEN CascadeDeletePatients({id})
                        ELSE UNCHANGED <<patients, appointments, fees, diagnostics>>
                     /\ last' = [req EXCEPT !.status = 200]
                     /\ UNCHANGED <<users, profiles>>
                ELSE /\ last' = [req EXCEPT !.status = 500]
                     /\ UNCHANGED records
           ELSE IF deleteOk THEN
                /\ CascadeDeleteUsers({patients[id].user_id})
                /\ last' = [req EXCEPT !.status = 200]
           ELSE /\ last' = [req EXCEPT !.status = IF variant = "auth" THEN 200 ELSE 500]
                /\ UNCHANGED records
        /\ UNCHANGED <<variant, blobs, tokens, nextId, inflight>>

\* GET /api/patients/:id: the record is fetched first, the ownership test
\* comes after.
GetPatient(tok, id) ==
    LET g == authenticateToken(tok)
        req == Request("GET /patients/:id", g.user)
    IN  /\ variant \in {"users", "auth"}
        /\ IF ~g.ok THEN last' = [req EXCEPT !.status = g.status]
           ELSE IF id \notin DOMAIN patients THEN last' = [req EXCEPT !.status = 404]
           ELSE IF g.user.role = "patient" /\ g.user.patientId # id THEN
                last' = [req EXCEPT !.status = 403]
           ELSE last' = [req EXCEPT !.status = 200]
        /\ UNCHANGED <<fees, diagnostics, blobs>>
        /\ UNCHANGED <<variant, users, profiles, patients, appointments, tokens,
                       nextId, inflight>>

-----------------------------------------------------------------------------
(* Resource scoping: routes/diagnostics.js canAccessPatient *)


Digits == <<"0", "1", "2", "3", "4", "5", "6", "7", "8", "9">>

\* Number.prototype.toString for a natural number.
RECURSIVE DecStr(_)
DecStr(n) == IF n < 10 THEN Digits[n + 1] ELSE DecStr(n \div 10) \o Digits[(n % 10) + 1]

\* String(v)
String(v) ==
    CASE v.t = "null" -> "null"
      [] v.t = "number" -> DecStr(v.n)
      [] v.t = "string" -> v.s

\* The ownership test written with === on the raw values, as GET /patients/:id
\* writes it.
canAccessPatientStrict(user, patientId) ==
    IF user.role = "doctor" THEN TRUE
    ELSE user.patientId # JsNull /\ user.patientId = patientId

canAccessPatient(user, patientId) ==
    IF user.role = "doctor" THEN TRUE
    ELSE user.patientId # JsNull /\ String(user.patientId) = String(patientId)

\* req.user as the gate leaves it
JsUser(user) ==
    [role |-> user.role,
     patientId |-> IF user.patientId = NoId THEN JsNull ELSE JsNum(user.patientId)]

PatientIds == 1..MaxUsers
PathParams == {DecStr(n) : n \in PatientIds} \cup {"null"}

\* GET /api/diagnostics/:patientId: list the diagnostics of one patient.
\* A parameter that is no id makes the store refuse the query.
ListDiagnostics(tok, patientId) ==
    LET g == authenticateToken(tok)
        req == Request("GET /diagnostics/:patientId", g.user)
    IN  /\ variant = "auth"
        /\ IF ~g.ok THEN last' = [req EXCEPT !.status = g.status]
           ELSE IF ~canAccessPatient(JsUser(g.user), JsStr(patientId)) THEN
                last' = [req EXCEPT !.status = 403]
           ELSE IF patientId = "null" THEN last' = [req EXCEPT !.status = 500]
           ELSE last' = [req EXCEPT !.status = 200]
        /\ UNCHANGED <<fees, diagnostics, blobs>>
        /\ UNCHANGED <<variant, users, profiles, patients, appointments, tokens,
                       nextId, inflight>>

\* The diagnostic looked up by its id alone.
DownloadRecordByIdOnly(patientId, id) ==
    Single({d \in DOMAIN diagnostics : d = id})

\* .eq('id', id).eq('patient_id', patientId).single() of the download route
DownloadRecord(patientId, id) ==
    Single({d \in DOMAIN diagnostics :
                d = id /\ String(JsNum(diagnostics[d].patient_id)) = patientId})

\* GET /api/diagnostics/:patientId/:id/download: a signed URL for one file.
\* signOk says whether object storage signed the URL.
DownloadDiagnostic(tok, patientId, id, signOk) ==
    LET g == authenticateToken(tok)
        req == Request("GET /diagnostics/:patientId/:id/download", g.user)
        record == DownloadRecord(patientId, id)
    IN  /\ variant = "auth"
        /\ IF ~g.ok THEN last' = [req EXCEPT !.status = g.status]
           ELSE IF ~canAccessPatient(JsUser(g.user), JsStr(patientId)) THEN
                last' = [req EXCEPT !.status = 403]
           ELSE IF record = NoId THEN last' = [req EXCEPT !.status = 404]
           ELSE IF ~signOk \/ diagnostics[record].file_path \notin blobs THEN
                last' = [req EXCEPT !.status = 500]
           ELSE last' = [req EXCEPT !.status = 200]
        /\ UNCHANGED <<fees, diagnostics, blobs>>
        /\ UNCHANGED <<variant, users, profiles, patients, appointments, tokens,
                       nextId, inflight>>

-----------------------------------------------------------------------------
(* Patient writes: routes/patients.js ("auth") and its users-table twin *)

Phones == {"9876543210"}
Ages == {30}

\* The password that takes the first four characters of the phone.
DefaultPasswordFirstFour(phone) ==
    SubSeq(phone, 1, IF Len(phone) > 4 THEN 4 ELSE Len(phone)) \o "123"

\* const defaultPassword = phone.slice(-4) + '123'
DefaultPassword(phone) ==
    SubSeq(phone, IF Len(phone) > 4 THEN Len(phone) - 3 ELSE 1, Len(phone)) \o "123"

\* const patientEmail = email || `${phone}@patient.com`
PatientEmail(email, phone) == IF email # Missing THEN email ELSE phone \o "@patient.com"

\* The patient record linked to the identity that asks for it.
PatientOwnerRequester(user, uid) == user.id

\* user_id of the new patient record: the id of the identity just created.
PatientOwner(user, uid) == uid

\* POST /api/patients (doctor only). "auth" invites the identity by email (it
\* has no password until the invite is used); "users" inserts a users row with
\* the derived email and password. patientOk and profileOk say whether the
\* store accepted the patient row and the profile row.
PostPatient(tok, name, age, phone, email, profileOk, patientOk) ==
    LET g == authenticateToken(tok)
        req == Request("POST /patients", g.user)
        uid == nextId.users
        identityEmail == IF variant = "auth" THEN email ELSE PatientEmail(email, phone)
        created == <<users, profiles, patients, nextId>>
    IN  /\ variant \in {"users", "auth"}
        /\ IF ~g.ok THEN
                /\ last' = [req EXCEPT !.status = g.status]
                /\ UNCHANGED created
           ELSE IF g.user.role # "doctor" THEN
                /\ last' = [req EXCEPT !.status = 403]
                /\ UNCHANGED created
           ELSE IF name = Missing \/ age = 0 \/ phone = Missing THEN
                /\ last' = [req EXCEPT !.status = 400]
                /\ UNCHANGED created
           ELSE IF variant = "auth" /\ email = Missing THEN
                /\ last' = [req EXCEPT !.status = 400]
                /\ UNCHANGED created
           ELSE IF UsersWithEmail(identityEmail) # {} THEN
                /\ last' = [req EXCEPT !.status = 400]
                /\ UNCHANGED created
           ELSE /\ uid <= MaxUsers
                /\ users' = Put(users, uid,
                        User("patient", identityEmail,
                             IF variant = "auth" THEN Missing
                             ELSE BcryptHash(DefaultPassword(phone))))
                /\ profiles' = IF variant = "auth" /\ profileOk
                               THEN profiles \cup {uid} ELSE profiles
                /\ IF patientOk
                   THEN /\ patients' = Put(patients, nextId.patients,
                                Patient(PatientOwner(g.user, uid), name,
                                        IF variant = "auth" THEN "active" ELSE "none"))
                        /\ nextId' = [nextId EXCEPT !.users = @ + 1, !.patients = @ + 1]
                        /\ last' = [req EXCEPT !.status = 201,
                                    !.credentials =
                                        IF variant = "auth" THEN NoCredentials
                                        ELSE [email |-> identityEmail,
                                              password |-> DefaultPassword(phone)]]
                   ELSE /\ patients' = patients
                        /\ nextId' = [nextId EXCEPT !.users = @ + 1]
                        /\ last' = [req EXCEPT !.status = 500]
        /\ UNCHANGED <<variant, appointments, fees, diagnostics, blobs, tokens, inflight>>

\* PUT /api/patients/:id (doctor only): a field absent from the body is left
\* out of the update; last_visit is always set to today.
PutPatient(tok, id, name) ==
    LET g == authenticateToken(tok)
        req == Request("PUT /patients/:id", g.user)
    IN  /\ variant \in {"users", "auth"}
        /\ IF ~g.ok THEN
                /\ last' = [req EXCEPT !.status = g.status]
                /\ UNCHANGED patients
           ELSE IF g.user.role # "doctor" THEN
                /\ last' = [req EXCEPT !.status = 403]
                /\ UNCHANGED patients
           ELSE IF id \notin DOMAIN patients THEN
                /\ last' = [req EXCEPT !.status = 404]
                /\ UNCHANGED patients
           ELSE /\ patients' = [patients EXCEPT
                        ![id].name = IF name = Missing THEN @ ELSE name,
                        ![id].last_visit = "today"]
                /\ last' = [req EXCEPT !.status = 200]
        /\ UNCHANGED <<fees, diagnostics, blobs>>
        /\ UNCHANGED <<variant, users, profiles, appointments, tokens, nextId,
                       inflight>>

-----------------------------------------------------------------------------
(* Fee writes: the SQLite routes and their Supabase port *)

JsUndefined == [t |-> "undefined", n |-> 0, s |-> ""]

NaN == [nan |-> TRUE, n |-> 0]

\* parseFloat(v): the number itself, the number a decimal numeral spells, NaN
\* for anything else.
ParseFloat(v) ==
    IF v.t = "number" THEN [nan |-> FALSE, n |-> v.n]
    ELSE IF v.t = "string" /\ \E n \in 0..99 : DecStr(n) = v.s
         THEN [nan |-> FALSE, n |-> CHOOSE n \in 0..99 : DecStr(n) = v.s]
    ELSE NaN

RECURSIVE TrimStart(_)
TrimStart(str) ==
    IF Len(str) > 0 /\ SubSeq(str, 1, 1) = " "
    THEN TrimStart(SubSeq(str, 2, Len(str))) ELSE str

RECURSIVE TrimEnd(_)
TrimEnd(str) ==
    IF Len(str) > 0 /\ SubSeq(str, Len(str), Len(str)) = " "
    THEN TrimEnd(SubSeq(str, 1, Len(str) - 1)) ELSE str

\* String.prototype.trim
Trim(str) == TrimEnd(TrimStart(str))

PaymentStatuses == {"pending", "paid"}

\* payment_status TEXT ... CHECK(payment_status IN ('pending', 'paid')): a NULL
\* passes a CHECK constraint.
PaymentStatusCheckOk(payment_status) ==
    payment_status = Missing \/ payment_status \in PaymentStatuses

\* The validations of POST /fees, in the handler's order: 0 when all pass.
PostFeeValidation(patient_id, amount, service) ==
    IF patient_id = NoId \/ amount = JsUndefined \/ amount = JsNull THEN 400
    ELSE IF amount.t # "number" /\ ParseFloat(amount).nan THEN 400
    ELSE IF ParseFloat(amount).n <= 0 THEN 400
    ELSE IF service = Missing \/ Trim(service) = Missing THEN 400
    ELSE 0

\* POST /api/fees (doctor only).
PostFee(tok, patient_id, amount, service, payment_status) ==
    LET g == authenticateToken(tok)
        req == Request("POST /fees", g.user)
        row == [patient_id |-> patient_id, amount |-> ParseFloat(amount).n,
                service |-> service,
                payment_status |-> IF payment_status = Missing THEN "pending"
                                   ELSE payment_status]
        status == IF ~g.ok THEN g.status
                  ELSE IF g.user.role # "doctor" THEN 403
                  ELSE IF PostFeeValidation(patient_id, amount, service) # 0
                       THEN PostFeeValidation(patient_id, amount, service)
                  ELSE IF ~ForeignKeyOk(patient_id) THEN 500
                  ELSE IF ~PaymentStatusCheckOk(row.payment_status) THEN 500
                  ELSE 201
    IN  /\ status = 201 => nextId.fees <= MaxFees
        /\ last' = [req EXCEPT !.status = status]
        /\ IF status = 201
           THEN /\ fees' = Put(fees, nextId.fees, row)
                /\ nextId' = [nextId EXCEPT !.fees = @ + 1]
           ELSE UNCHANGED <<fees, nextId>>
        /\ UNCHANGED <<variant, users, profiles, patients, appointments, diagnostics,
                       blobs, tokens, inflight>>

\* The row UPDATE fees SET ... WHERE id = ? leaves. SQLite binds an absent
\* parameter as NULL, so every column is overwritten; the Supabase port sends
\* only the fields the body has.
UpdatedFee(row, amount, service, payment_status) ==
    IF variant = "sqlite"
    THEN [row EXCEPT !.amount = ParseFloat(amount).n, !.service = service,
                     !.payment_status = payment_status]
    ELSE [row EXCEPT !.amount = IF amount = JsUndefined THEN @ ELSE ParseFloat(amount).n,
                     !.service = IF service = Missing THEN @ ELSE service,
                     !.payment_status = IF payment_status = Missing THEN @
                                        ELSE payment_status]

\* PUT /api/fees/:id (doctor only).
PutFee(tok, id, amount, service, payment_status) ==
    LET g == authenticateToken(tok)
        req == Request("PUT /fees/:id", g.user)
        status == IF ~g.ok THEN g.status
                  ELSE IF g.user.role # "doctor" THEN 403
                  ELSE IF amount # JsUndefined
                          /\ (ParseFloat(amount).nan \/ ParseFloat(amount).n <= 0) THEN 400
                  ELSE IF id \notin DOMAIN fees THEN 404
                  \* amount REAL NOT NULL
                  ELSE IF variant = "sqlite" /\ amount = JsUndefined THEN 500
                  ELSE IF ~PaymentStatusCheckOk(payment_status)
                       THEN (IF variant = "sqlite" THEN 500 ELSE 404)
                  ELSE 200
    IN  /\ last' = [req EXCEPT !.status = status]
        /\ fees' = IF status = 200
                   THEN [fees EXCEPT ![id] = UpdatedFee(@, amount, service, payment_status)]
                   ELSE fees
        /\ UNCHANGED <<variant, users, profiles, patients, appointments, diagnostics,
                       blobs, tokens, nextId, inflight>>

\* DELETE /api/fees/:id (doctor only): success whether or not the row existed.
DeleteFee(tok, id) ==
    LET g == authenticateToken(tok)
        req == Request("DELETE /fees/:id", g.user)
    IN  /\ IF ~g.ok THEN
                /\ last' = [req EXCEPT !.status = g.status]
                /\ UNCHANGED fees
           ELSE IF g.user.role # "doctor" THEN
                /\ last' = [req EXCEPT !.status = 403]
                /\ UNCHANGED fees
           ELSE /\ fees' = Drop(fees, {id})
                /\ last' = [req EXCEPT !.status = 200]
        /\ UNCHANGED <<variant, users, profiles, patients, appointments, diagnostics,
                       blobs, tokens, nextId, inflight>>

-----------------------------------------------------------------------------
(* Diagnostic writes: routes/diagnostics.js *)

\* A multipart file part as multer sees it; NoFile when the request has none.
File(mimetype, size) == [mimetype |-> mimetype, size |-> size]
NoFile == File("", 0)

AllowedMimeTypes == {"application/pdf", "image/jpeg", "image/jpg", "image/png"}
FileSizeLimit == 10 * 1024 * 1024

Files == {File("application/pdf", 2048), File("text/plain", 2048),
          File("image/png", FileSizeLimit + 1)}
Labels == {"X-Ray"}

\* upload.single('file') and the router's error handler: the status the
\* request ends with inside the middleware, 0 when it goes on to the handler.
MulterStatus(file) ==
    IF file = NoFile THEN 0
    ELSE IF file.mimetype \notin AllowedMimeTypes THEN 400
    ELSE IF file.size > FileSizeLimit THEN 400
    ELSE 0

\* router.post('/:patientId', authenticateToken, upload.single('file'), handler):
\* what the chain answers before the handler validates anything else.
UploadPrecheck(user, file) ==
    IF MulterStatus(file) # 0 THEN MulterStatus(file)
    ELSE IF user.role # "doctor" THEN 403
    ELSE 0

\* The validations that leave out the lookup of the target patient.
UploadValidationWithoutLookup(user, file, label, patientId) ==
    IF UploadPrecheck(user, file) # 0 THEN UploadPrecheck(user, file)
    ELSE IF file = NoFile THEN 400
    ELSE IF label = Missing \/ Trim(label) = Missing THEN 400
    ELSE 0

\* What the upload route checks before it builds the storage path, in the
\* order it checks: 0 when the request may go on to object storage.
UploadValidation(user, file, label, patientId) ==
    IF UploadPrecheck(user, file) # 0 THEN UploadPrecheck(user, file)
    ELSE IF file = NoFile THEN 400
    ELSE IF label = Missing \/ Trim(label) = Missing THEN 400
    ELSE IF patientId \notin DOMAIN patients THEN 404
    ELSE 0

\* POST /api/diagnostics/:patientId (doctor only): blob first, then the row; a
\* refused row is compensated by removing the blob. uploadOk, dbOk and removeOk
\* say whether storage took the blob, the store took the row, and storage
\* removed the blob again.
UploadDiagnostic(tok, patientId, file, label, uploadOk, dbOk, removeOk) ==
    LET g == authenticateToken(tok)
        req == Request("POST /diagnostics/:patientId", g.user)
        filePath == nextId.blobs
        status == IF ~g.ok THEN g.status
                  ELSE IF UploadValidation(g.user, file, label, patientId) # 0
                       THEN UploadValidation(g.user, file, label, patientId)
                  ELSE IF ~uploadOk THEN 500
                  ELSE IF ~dbOk THEN 500
                  ELSE 201
        stored == g.ok /\ status \in {201, 500} /\ uploadOk
    IN  /\ stored => nextId.blobs <= MaxDiags
        /\ variant = "auth"
        /\ last' = [req EXCEPT !.status = status]
        /\ IF ~stored THEN UNCHANGED <<diagnostics, blobs, nextId>>
           ELSE IF status = 201 THEN
                /\ blobs' = blobs \cup {filePath}
                /\ diagnostics' = Put(diagnostics, nextId.diagnostics,
                        [patient_id |-> patientId, file_path |-> filePath])
                /\ nextId' = [nextId EXCEPT !.blobs = @ + 1, !.diagnostics = @ + 1]
           ELSE /\ blobs' = IF removeOk THEN blobs ELSE blobs \cup {filePath}
                /\ nextId' = [nextId EXCEPT !.blobs = @ + 1]
                /\ UNCHANGED diagnostics
        /\ UNCHANGED <<variant, users, profiles, patients, appointments, fees, tokens,
                       inflight>>

\* The row delete that is given up when storage could not remove the blob.
RowDeleteAttemptedIfRemoved(removeOk) == removeOk

\* await supabase.storage.from('diagnostics').remove([...]) is not assigned: the
\* row delete that follows is attempted whatever storage answered.
RowDeleteAttempted(removeOk) == TRUE

\* DELETE /api/diagnostics/:patientId/:id (doctor only): blob first (its result
\* is not looked at), then the row.
DeleteDiagnostic(tok, patientId, id, removeOk, dbOk) ==
    LET g == authenticateToken(tok)
        req == Request("DELETE /diagnostics/:patientId/:id", g.user)
        record == Single({d \in DOMAIN diagnostics :
                    d = id /\ diagnostics[d].patient_id = patientId})
    IN  /\ variant = "auth"
        /\ IF ~g.ok THEN
                /\ last' = [req EXCEPT !.status = g.status]
                /\ UNCHANGED <<diagnostics, blobs>>
           ELSE IF g.user.role # "doctor" THEN
                /\ last' = [req EXCEPT !.status = 403]
                /\ UNCHANGED <<diagnostics, blobs>>
           ELSE IF record = NoId THEN
                /\ last' = [req EXCEPT !.status = 404]
                /\ UNCHANGED <<diagnostics, blobs>>
           ELSE /\ blobs' = IF removeOk THEN blobs \ {diagnostics[record].file_path}
                            ELSE blobs
                /\ diagnostics' = IF RowDeleteAttempted(removeOk) /\ dbOk
                                  THEN Drop(diagnostics, {id}) ELSE diagnostics
                /\ last' = [req EXCEPT !.status =
                                IF RowDeleteAttempted(removeOk) /\ dbOk THEN 200 ELSE 500]
        /\ UNCHANGED <<variant, users, profiles, patients, appointments, fees, tokens,
                       nextId, inflight>>

-----------------------------------------------------------------------------
(* The Supabase Auth deployment from its first start *)

InitAuth ==
    /\ variant = "auth"
    /\ EmptyStore

NextAuth ==
    \/ \E n \in Names \cup {Missing}, e \in Emails \cup {Missing}, pw \in Passwords,
          patientOk \in BOOLEAN :
            Signup(n, e, pw, TRUE, patientOk)
    \/ \E e \in Emails \cup {DoctorEmail, Missing},
          pw \in Passwords \cup {DoctorPassword, Missing} : Login(e, pw)
    \/ \E tok \in Credentials : Verify(tok)
    \/ \E tok \in Credentials, id \in PatientIds : ApprovePatient(tok, id)
    \/ \E tok \in Credentials, id \in PatientIds : DeletePatient(tok, id, TRUE)
    \/ \E tok \in Credentials, id \in PatientIds : GetPatient(tok, id)
    \/ \E tok \in Credentials, param \in PathParams : ListDiagnostics(tok, param)
    \/ \E tok \in Credentials, param \in PathParams :
            DownloadDiagnostic(tok, param, 1, TRUE)

SpecAuth == InitAuth /\ [][NextAuth]_vars

-----------------------------------------------------------------------------
(* Claims about approval gating and scoping, checked under SpecAuth *)

\* The identity is a patient with a patient record still awaiting approval.
HasPendingRecord(uid) ==
    /\ uid \in DOMAIN users
    /\ users[uid].role = "patient"
    /\ \E p \in DOMAIN patients :
            patients[p].user_id = uid /\ patients[p].status = "pending"

\* C5: a login with the correct email and password of a patient identity whose
\* record is pending is answered 403 and returns no token, and so is a verify
\* with a valid token of such an identity.
C5_PendingCannotLogin ==
    [][ /\ \A e \in Emails, pw \in Passwords :
            ( /\ Login(e, pw)
              /\ \E u \in DOMAIN users :
                    /\ users[u].email = e
                    /\ users[u].password = pw
                    /\ u \in profiles
                    /\ HasPendingRecord(u) )
            => (last'.status = 403 /\ last'.token = NoToken)
        /\ \A tok \in tokens :
            (Verify(tok) /\ tok.sub \in profiles /\ HasPendingRecord(tok.sub))
            => last'.status = 403
      ]_vars

\* C5 witness: a pending patient whose password the provider accepted (a session
\* exists) has just been refused by verify.
C5_Witness ==
    /\ last.op = "GET /auth/verify"
    /\ last.status = 403
    /\ last.role = "patient"
    /\ \E tok \in tokens : HasPendingRecord(tok.sub)

\* C6: the gate of the protected routes rejects every valid credential of a
\* patient identity whose record is pending.
C6_GateRejectsPending ==
    \A tok \in tokens :
        (tok.sub \in profiles /\ HasPendingRecord(tok.sub))
            => ~authenticateToken(tok).ok

\* C7: a patient principal asking for another patient's record, diagnostics
\* list or diagnostic download is answered 403, never 404, whether or not that
\* patient exists.
C7_OtherPatientForbidden ==
    [][ /\ \A tok \in tokens, id \in PatientIds :
            LET g == authenticateToken(tok) IN
            ( /\ GetPatient(tok, id)
              /\ g.ok /\ g.user.role = "patient"
              /\ id # NoId /\ id # g.user.patientId )
            => last'.status = 403
        /\ \A tok \in tokens, id \in PatientIds :
            LET g == authenticateToken(tok) IN
            ( /\ ListDiagnostics(tok, DecStr(id))
              /\ g.ok /\ g.user.role = "patient"
              /\ id # NoId /\ id # g.user.patientId )
            => last'.status = 403
        /\ \A tok \in tokens, id \in PatientIds :
            LET g == authenticateToken(tok) IN
            ( /\ DownloadDiagnostic(tok, DecStr(id), 1, TRUE)
              /\ g.ok /\ g.user.role = "patient"
              /\ id # NoId /\ id # g.user.patientId )
            => last'.status = 403
      ]_vars

\* The decimal numerals of the ids the claim about canAccessPatient ranges over.
Numeral == [n \in 0..12 |->
    <<"0", "1", "2", "3", "4", "5", "6", "7", "8", "9", "10", "11", "12">>[n + 1]]

\* C8: canAccessPatient is true for every doctor; a patient with a null
\* patientId is never granted; a patient with id n is granted exactly for n,
\* given as a number or as its decimal string.
C8_CanAccessPatient ==
    /\ \A n \in 0..12, m \in 0..12 :
        LET doctor == [role |-> "doctor", patientId |-> JsNull]
            nobody == [role |-> "patient", patientId |-> JsNull]
            owner == [role |-> "patient", patientId |-> JsNum(n)]
            ownerS == [role |-> "patient", patientId |-> JsStr(Numeral[n])]
        IN  /\ canAccessPatient(doctor, JsStr(Numeral[m]))
            /\ canAccessPatient(doctor, JsNum(m))
            /\ ~canAccessPatient(nobody, JsStr(Numeral[m]))
            /\ ~canAccessPatient(nobody, JsStr("null"))
            /\ ~canAccessPatient(nobody, JsNull)
            /\ canAccessPatient(owner, JsStr(Numeral[m])) <=> (m = n)
            /\ canAccessPatient(owner, JsNum(m)) <=> (m = n)
            /\ canAccessPatient(ownerS, JsNum(m)) <=> (m = n)
            /\ canAccessPatient(ownerS, JsStr(Numeral[m])) <=> (m = n)
    /\ \A tok \in tokens, param \in PathParams :
        LET g == authenticateToken(tok) IN
        g.ok => ( canAccessPatient(JsUser(g.user), JsStr(param))
                    <=> \/ g.user.role = "doctor"
                        \/ /\ g.user.patientId # NoId
                           /\ param = Numeral[g.user.patientId] )

\* C8 witness: a patient principal has just listed their own diagnostics, the
\* numeric patientId matching the path's string.
C8_Witness ==
    /\ last.op = "GET /diagnostics/:patientId"
    /\ last.status = 200
    /\ last.role = "patient"

-----------------------------------------------------------------------------
(* The write routes of each deployment on a small clinic *)

\* The clinic after the doctor added one patient and booked one appointment
\* for them, and both logged in.
SmallClinic ==
    /\ users = (Doctor :> User("doctor", DoctorEmail, StoredPassword(DoctorPassword)))
               @@ (2 :> User("patient", "a@patient.com", StoredPassword("3210123")))
    /\ profiles = IF variant = "auth" THEN {Doctor, 2} ELSE {}
    /\ patients = (1 :> Patient(2, "Asha", IF variant = "auth" THEN "active" ELSE "none"))
    /\ appointments = (1 :> NewAppointment(1, "2024-03-01", "10:00"))
    /\ fees = << >>
    /\ diagnostics = << >>
    /\ blobs = {}
    /\ tokens = {TokenFor(u) : u \in {Doctor, 2}}
    /\ nextId = [users |-> 3, patients |-> 2, appointments |-> 2, fees |-> 1,
                 diagnostics |-> 1, blobs |-> 1]
    /\ inflight = << >>
    /\ last = NoRequest

\* The "users" deployment runs the fee, appointment and diagnostic code of
\* "auth" behind the gate of "sqlite".
InitWrite ==
    /\ variant \in {"sqlite", "auth"}
    /\ SmallClinic

RecordIds == 1..2
\* Fees and files are written for the first patient, for no patient, and for
\* an id no patient has.
FeePatientInputs == {NoId, 1}
FilePatientInputs == {1, nextId.patients}
NameInputs == {Missing, "Ravi"}
AgeInputs == Ages \cup {0}
EmailInputs == {"ravi@mail.com", "a@patient.com"}
AmountInputs == {JsUndefined, JsNum(0), JsNum(50)}
ServiceInputs == {"Consultation"}
PaymentStatusInputs == {"paid"}
FileInputs == Files \cup {NoFile}
LabelInputs == Labels \cup {" "}

NextWrite ==
    \/ \E tok \in tokens, n \in NameInputs, age \in AgeInputs, ph \in Phones,
          e \in EmailInputs :
            PostPatient(tok, n, age, ph, e, TRUE, TRUE)
    \/ \E tok \in tokens, id \in RecordIds, n \in NameInputs : PutPatient(tok, id, n)
    \/ \E tok \in tokens, id \in RecordIds : ApprovePatient(tok, id)
    \/ \E tok \in tokens, id \in RecordIds : DeletePatient(tok, id, TRUE)
    \/ \E tok \in tokens, p \in FeePatientInputs, amount \in AmountInputs,
          service \in ServiceInputs, ps \in PaymentStatusInputs :
            PostFee(tok, p, amount, service, ps)
    \/ \E tok \in tokens, id \in RecordIds, amount \in AmountInputs,
          service \in ServiceInputs, ps \in PaymentStatusInputs :
            PutFee(tok, id, amount, service, ps)
    \/ \E tok \in tokens, id \in RecordIds : DeleteFee(tok, id)
    \/ \E tok \in tokens, p \in FilePatientInputs, file \in FileInputs,
          label \in LabelInputs :
            UploadDiagnostic(tok, p, file, label, TRUE, TRUE, TRUE)
    \/ \E tok \in tokens, p \in FilePatientInputs, id \in RecordIds :
            DeleteDiagnostic(tok, p, id, TRUE, TRUE)
    \/ \E tok \in tokens, id \in RecordIds, s \in {"cancelled", "bogus"} :
            PutAppointment(tok, id, s)
    \/ \E tok \in tokens, id \in RecordIds : DeleteAppointment(tok, id)

SpecWrite == InitWrite /\ [][NextWrite]_vars

-----------------------------------------------------------------------------
(* Claim about the writes, checked under SpecWrite *)

\* The request is one of the writes reserved to the doctor, carrying tok.
DoctorOnlyWrite(tok) ==
    \/ \E n \in NameInputs, age \in AgeInputs, ph \in Phones, e \in EmailInputs :
            PostPatient(tok, n, age, ph, e, TRUE, TRUE)
    \/ \E id \in RecordIds, n \in NameInputs : PutPatient(tok, id, n)
    \/ \E id \in RecordIds : ApprovePatient(tok, id)
    \/ \E id \in RecordIds : DeletePatient(tok, id, TRUE)
    \/ \E p \in FeePatientInputs, amount \in AmountInputs,
          service \in ServiceInputs, ps \in PaymentStatusInputs :
            PostFee(tok, p, amount, service, ps)
    \/ \E id \in RecordIds, amount \in AmountInputs,
          service \in ServiceInputs, ps \in PaymentStatusInputs :
            PutFee(tok, id, amount, service, ps)
    \/ \E id \in RecordIds : DeleteFee(tok, id)
    \/ \E p \in FilePatientInputs, file \in FileInputs, label \in LabelInputs :
            UploadDiagnostic(tok, p, file, label, TRUE, TRUE, TRUE)
    \/ \E p \in FilePatientInputs, id \in RecordIds :
            DeleteDiagnostic(tok, p, id, TRUE, TRUE)
    \/ \E id \in RecordIds, s \in {"cancelled", "bogus"} : PutAppointment(tok, id, s)
    \/ \E id \in RecordIds : DeleteAppointment(tok, id)

\* C9: every write on patients, fees, diagnostics and appointment status or
\* deletion requested by an authenticated principal whose role is not doctor is
\* answered 403 and leaves the store and object storage as they were.
C9_NonDoctorWriteForbidden ==
    [][\A tok \in tokens :
        LET g == authenticateToken(tok) IN
        (g.ok /\ g.user.role # "doctor" /\ DoctorOnlyWrite(tok))
            => ( /\ last'.status = 403
                 /\ UNCHANGED <<users, profiles, patients, appointments, fees,
                                diagnostics, blobs>> )
      ]_vars

-----------------------------------------------------------------------------
(* Provisioning of patients, from the first start of a deployment *)

\* The row POST /login of the JWT deployments reads: db.get gives the first
\* match, .single() a row only when exactly one matches.
JwtLoginUser(email, role) ==
    LET rows == {u \in UsersWithEmail(email) : users[u].role = role}
    IN  IF variant = "sqlite" THEN DbGet(rows) ELSE Single(rows)

\* The status POST /login of the JWT deployments answers with.
JwtLoginStatus(email, password, role) ==
    IF email = Missing \/ password = Missing \/ role = Missing THEN 400
    ELSE IF JwtLoginUser(email, role) = NoId THEN 401
    ELSE IF ~BcryptCompare(password, users[JwtLoginUser(email, role)].password) THEN 401
    ELSE 200

\* POST /api/auth/login of the JWT deployments: signs {id, role, patientId}.
JwtLogin(email, password, role) ==
    LET req == Request("POST /auth/login", NoUser)
        status == JwtLoginStatus(email, password, role)
        token == TokenFor(JwtLoginUser(email, role))
    IN  /\ variant \in JwtVariants
        /\ IF status = 200
           THEN /\ tokens' = tokens \cup {token}
                /\ last' = [req EXCEPT !.status = 200, !.role = role, !.token = token]
           ELSE /\ last' = [req EXCEPT !.status = status]
                /\ UNCHANGED tokens
        /\ UNCHANGED <<fees, diagnostics, blobs>>
        /\ UNCHANGED <<variant, users, profiles, patients, appointments, nextId,
                       inflight>>

InitProvision ==
    /\ variant \in {"users", "auth"}
    /\ EmptyStore

ShortPhone == "321"
PhoneInputs == Phones \cup {ShortPhone}
PatientEmailInputs == {Missing, "ravi@mail.com"}
\* What a client may type at the login form: the passwords the issuer can have
\* handed out for PhoneInputs, the doctor's, and a wrong one.
PasswordInputs == {"3210123", "321123", DoctorPassword, "9876123"}
LoginEmails == {DoctorEmail, "ravi@mail.com", "9876543210@patient.com",
                "321@patient.com"}
Roles == {"doctor", "patient"}

NextProvision ==
    \/ \E e \in LoginEmails, pw \in PasswordInputs, role \in Roles :
            JwtLogin(e, pw, role)
    \/ \E pw \in {DoctorPassword, "9876123"} : Login(DoctorEmail, pw)
    \/ \E tok \in tokens, n \in NameInputs, ph \in PhoneInputs,
          e \in PatientEmailInputs, patientOk \in BOOLEAN :
            PostPatient(tok, n, 30, ph, e, TRUE, patientOk)

SpecProvision == InitProvision /\ [][NextProvision]_vars

-----------------------------------------------------------------------------
(* Claims about provisioning, checked under SpecProvision *)

\* password is the last four characters of phone (all of it when it has fewer)
\* followed by "123".
LastFourPlus123(password, phone) ==
    LET k == IF Len(phone) < 4 THEN Len(phone) ELSE 4
    IN  /\ Len(password) = k + 3
        /\ SubSeq(password, k + 1, k + 3) = "123"
        /\ \A i \in 1..k :
                SubSeq(password, i, i) = SubSeq(phone, Len(phone) - k + i, Len(phone) - k + i)

\* C11: in the users-table deployment a successful POST /patients returns the
\* password made of the last four characters of the phone followed by "123"
\* (3210123 for 9876543210) and the supplied email, or phone@patient.com when
\* none was supplied; a login as patient with exactly these credentials then
\* succeeds and resolves to the identity just created.
C11_IssuedCredentials ==
    [][\A tok \in tokens, n \in NameInputs, ph \in PhoneInputs,
          e \in PatientEmailInputs, patientOk \in BOOLEAN :
        ( /\ variant = "users"
          /\ last'.status = 201
          /\ PostPatient(tok, n, 30, ph, e, TRUE, patientOk) )
        => \E pw \in PasswordInputs, em \in LoginEmails :
            /\ LastFourPlus123(pw, ph)
            /\ ph = "9876543210" => pw = "3210123"
            /\ em = IF e = Missing THEN ph \o "@patient.com" ELSE e
            /\ last'.credentials = [email |-> em, password |-> pw]
            /\ nextId.users \in DOMAIN users'
            /\ users'[nextId.users].email = em
            /\ JwtLoginStatus(em, pw, "patient")' = 200
            /\ JwtLoginUser(em, "patient")' = nextId.users
      ]_vars

\* C11 witness: a patient provisioned without an email has just logged in with
\* the issued email and password.
C11_Witness ==
    /\ variant = "users"
    /\ last.op = "POST /auth/login"
    /\ last.status = 200
    /\ last.role = "patient"
    /\ last.token.sub \in DOMAIN users
    /\ users[last.token.sub].email = "9876543210@patient.com"
    /\ BcryptCompare("3210123", users[last.token.sub].password)

\* C12: a doctor's POST /patients whose supplied or derived email already
\* identifies an identity is answered 409, and no identity and no patient
\* record is added.
C12_DuplicateEmailConflict ==
    [][\A tok \in tokens, n \in NameInputs \ {Missing}, ph \in PhoneInputs,
          e \in PatientEmailInputs, patientOk \in BOOLEAN :
        LET g == authenticateToken(tok)
            em == IF e # Missing \/ variant = "auth" THEN e ELSE ph \o "@patient.com"
        IN  ( /\ g.ok
              /\ g.user.role = "doctor"
              /\ em # Missing
              /\ \E u \in DOMAIN users : users[u].email = em
              /\ PostPatient(tok, n, 30, ph, e, TRUE, patientOk) )
            => ( /\ last'.status = 409
                 /\ UNCHANGED <<users, profiles, patients>> )
      ]_vars

-----------------------------------------------------------------------------
(* Removal of a patient who has appointments and fees *)

InitRemoval ==
    /\ variant \in {"users", "auth"}
    /\ SmallClinic

NextRemoval ==
    \/ \E tok \in tokens : PostPatient(tok, "Ravi", 30, "9876543210", "ravi@mail.com",
                                       TRUE, TRUE)
    \/ \E tok \in tokens, p \in RecordIds : PostAppointment(tok, p, "2024-03-01", "10:00")
    \/ \E tok \in tokens, id \in RecordIds : PutAppointment(tok, id, "completed")
    \/ \E tok \in tokens, p \in RecordIds :
            PostFee(tok, p, JsNum(50), "Consultation", "pending")
    \/ \E tok \in tokens, id \in RecordIds, deleteOk \in BOOLEAN :
            DeletePatient(tok, id, deleteOk)
    \/ \E tok \in tokens, id \in RecordIds : GetPatient(tok, id)

SpecRemoval == InitRemoval /\ [][NextRemoval]_vars

\* C13: when DELETE /patients/:id of an existing patient is answered with
\* success, the patient record, the identity that owned it and every
\* appointment and fee that referenced the patient are gone from the store.
C13_DeleteCascades ==
    [][\A tok \in tokens, id \in RecordIds, deleteOk \in BOOLEAN :
        ( /\ id \in DOMAIN patients
          /\ last'.status = 200
          /\ DeletePatient(tok, id, deleteOk) )
        => ( /\ id \notin DOMAIN patients'
             /\ patients[id].user_id \notin DOMAIN users'
             /\ \A a \in DOMAIN appointments' : appointments'[a].patient_id # id
             /\ \A f \in DOMAIN fees' : fees'[f].patient_id # id )
      ]_vars

-----------------------------------------------------------------------------
(* Fees: revenue statistics and the rows create and update leave *)

FeesWith(payment_status) ==
    {f \in DOMAIN fees : fees[f].payment_status = payment_status}

\* SELECT SUM(amount) as total FROM fees WHERE ...: NULL when no row matches.
RECURSIVE SqlSum(_)
SqlSum(ids) ==
    IF ids = {} THEN JsNull
    ELSE LET f == Min(ids)
             rest == SqlSum(ids \ {f})
         IN  JsNum(fees[f].amount + (IF rest = JsNull THEN 0 ELSE rest.n))

\* The total passed on as the query returned it.
TotalAsReturned(total) == total

\* result.total || 0: null and 0 are falsy.
TotalOrZero(total) ==
    IF total = JsNull \/ total = JsNum(0) THEN JsNum(0) ELSE total

\* (rows || []).reduce((s, f) => s + parseFloat(f.amount || 0), 0)
RECURSIVE ReduceAmounts(_)
ReduceAmounts(ids) ==
    IF ids = {} THEN 0
    ELSE LET f == CHOOSE x \in ids : \A y \in ids : y <= x
             amount == IF fees[f].amount = 0 THEN JsNum(0) ELSE JsNum(fees[f].amount)
         IN  ReduceAmounts(ids \ {f}) + ParseFloat(amount).n

\* The total GET /fees/stats/revenue reports for one payment status.
Revenue(payment_status) ==
    IF variant = "sqlite" THEN TotalOrZero(SqlSum(FeesWith(payment_status)))
    ELSE JsNum(ReduceAmounts(FeesWith(payment_status)))

\* GET /api/fees/stats/revenue (doctor only).
GetRevenue(tok) ==
    LET g == authenticateToken(tok)
        req == Request("GET /fees/stats/revenue", g.user)
    IN  /\ IF ~g.ok THEN last' = [req EXCEPT !.status = g.status]
           ELSE IF g.user.role # "doctor" THEN last' = [req EXCEPT !.status = 403]
           ELSE last' = [req EXCEPT !.status = 200,
                                    !.totalRevenue = Revenue("paid"),
                                    !.pendingPayments = Revenue("pending")]
        /\ UNCHANGED <<variant, users, profiles, patients, appointments, fees,
                       diagnostics, blobs, tokens, nextId, inflight>>

InitFees ==
    /\ variant \in {"sqlite", "auth"}
    /\ SmallClinic

PostAmountInputs == {JsUndefined, JsNum(0), JsNum(50), JsStr("25")}
PutAmountInputs == {JsUndefined, JsNum(50)}
PostServiceInputs == {Missing, " ", "Consultation"}
PutServiceInputs == {Missing, "Consultation"}
FeeStatusInputs == {Missing, "paid", "pending"}

NextFees ==
    \/ \E tok \in tokens, amount \in PostAmountInputs, service \in PostServiceInputs,
          ps \in FeeStatusInputs :
            PostFee(tok, 1, amount, service, ps)
    \/ \E tok \in tokens, id \in RecordIds, amount \in PutAmountInputs,
          service \in PutServiceInputs, ps \in FeeStatusInputs :
            PutFee(tok, id, amount, service, ps)
    \/ \E tok \in tokens, id \in RecordIds : DeleteFee(tok, id)
    \/ \E tok \in tokens : GetRevenue(tok)

SpecFees == InitFees /\ [][NextFees]_vars

-----------------------------------------------------------------------------
(* Claims about fees, checked under SpecFees *)

\* The sum of amount over the fee rows in ids, one row after the other.
RECURSIVE AmountOver(_)
AmountOver(ids) ==
    IF ids = {} THEN 0
    ELSE LET f == CHOOSE x \in ids : TRUE
         IN  fees[f].amount + AmountOver(ids \ {f})

C15_FeeRowsWellFormed ==
    \A f \in DOMAIN fees :
        /\ fees[f].amount > 0
        /\ fees[f].service # Missing
        /\ fees[f].payment_status \in PaymentStatuses

-----------------------------------------------------------------------------
(* The diagnostics router, with storage and store steps that may fail *)

InitDiag ==
    /\ variant = "auth"
    /\ SmallClinic

DiagLabelInputs == {Missing, " ", "X-Ray"}

NextDiag ==
    \/ \E tok \in tokens, p \in FilePatientInputs, file \in FileInputs,
          label \in DiagLabelInputs, uploadOk \in BOOLEAN, dbOk \in BOOLEAN,
          removeOk \in BOOLEAN :
            UploadDiagnostic(tok, p, file, label, uploadOk, dbOk, removeOk)
    \/ \E tok \in Credentials, p \in FilePatientInputs, id \in RecordIds,
          removeOk \in BOOLEAN, dbOk \in BOOLEAN :
            DeleteDiagnostic(tok, p, id, removeOk, dbOk)
    \/ \E tok \in Credentials, param \in PathParams : ListDiagnostics(tok, param)
    \/ \E tok \in Credentials, param \in PathParams, id \in RecordIds,
          signOk \in BOOLEAN :
            DownloadDiagnostic(tok, param, id, signOk)

SpecDiag == InitDiag /\ [][NextDiag]_vars

-----------------------------------------------------------------------------
(* Claims about diagnostics, checked under SpecDiag *)

\* The upload passes every validation of the route: a doctor's file of an
\* allowed type and size, a label with visible characters, an existing patient.
ValidUpload(user, p, file, label) ==
    /\ user.role = "doctor"
    /\ file # NoFile
    /\ file.mimetype \in {"application/pdf", "image/jpeg", "image/png"}
    /\ file.size <= 10485760
    /\ label # Missing /\ label # " "
    /\ p \in DOMAIN patients

\* C16: an upload whose blob was written and whose metadata insert then fails
\* is answered with an error and leaves no blob under the path it wrote,
\* whether or not the compensating storage delete succeeds.
C16_NoOrphanAfterFailedInsert ==
    [][\A tok \in tokens, p \in FilePatientInputs, file \in FileInputs,
          label \in DiagLabelInputs, removeOk \in BOOLEAN :
        LET g == authenticateToken(tok) IN
        ( /\ g.ok
          /\ ValidUpload(g.user, p, file, label)
          /\ UploadDiagnostic(tok, p, file, label, TRUE, FALSE, removeOk) )
        => ( /\ last'.status = 500
             /\ nextId.blobs \notin blobs'
             /\ diagnostics' = diagnostics )
      ]_vars

\* C17: between requests every diagnostic row's file_path names a blob in
\* object storage and every blob is named by a diagnostic row.
C17_RowsAndBlobsAgree ==
    /\ \A d \in DOMAIN diagnostics : diagnostics[d].file_path \in blobs
    /\ \A b \in blobs : \E d \in DOMAIN diagnostics : diagnostics[d].file_path = b

\* C18: a doctor's DELETE of an existing diagnostic removes the blob whatever
\* becomes of the row delete (the blob goes first), and deletes the row and
\* answers 200 whenever the store carries the row delete out, also when
\* storage failed to remove the blob (which then stays).
C18_DeleteNotBlockedByStorage ==
    [][\A tok \in tokens, p \in FilePatientInputs, id \in RecordIds,
          removeOk \in BOOLEAN, dbOk \in BOOLEAN :
        LET g == authenticateToken(tok) IN
        ( /\ g.ok
          /\ g.user.role = "doctor"
          /\ id \in DOMAIN diagnostics
          /\ diagnostics[id].patient_id = p
          /\ DeleteDiagnostic(tok, p, id, removeOk, dbOk) )
        => ( /\ removeOk => diagnostics[id].file_path \notin blobs'
             /\ ~removeOk => blobs' = blobs
             /\ dbOk => (id \notin DOMAIN diagnostics' /\ last'.status = 200)
             /\ ~dbOk => (diagnostics' = diagnostics /\ last'.status = 500) )
      ]_vars

\* C18 witness: the doctor's delete was just answered 200 and the row is gone
\* although storage kept the blob.
C18_Witness ==
    /\ last.op = "DELETE /diagnostics/:patientId/:id"
    /\ last.status = 200
    /\ last.role = "doctor"
    /\ diagnostics = << >>
    /\ blobs # {}

\* C19: an authenticated upload with a file of a type outside the allow-list,
\* a file over 10 MiB, no file, an empty or whitespace-only label or a target
\* patient that does not exist is refused with a 4xx status, writes no blob,
\* inserts no row and does not get as far as object storage. Stated from the
\* outcome: a request that was answered otherwise, or after which the bucket,
\* the table or the path counter differ, is no such upload.
C19_RejectedBeforeStorage ==
    [][ ( /\ last'.op = "POST /diagnostics/:patientId"
          /\ \/ last'.status \notin {400, 403, 404}
             \/ blobs' # blobs
             \/ diagnostics' # diagnostics
             \/ nextId' # nextId )
        => \A tok \in tokens, p \in FilePatientInputs, file \in FileInputs,
              label \in DiagLabelInputs, uploadOk \in BOOLEAN, dbOk \in BOOLEAN,
              removeOk \in BOOLEAN :
            LET g == authenticateToken(tok) IN
            ~ ( /\ g.ok
                /\ \/ file = NoFile
                   \/ file.mimetype \notin {"application/pdf", "image/jpeg",
                                            "image/jpg", "image/png"}
                   \/ file.size > 10485760
                   \/ label = Missing
                   \/ label = " "
                   \/ p \notin DOMAIN patients
                /\ UploadDiagnostic(tok, p, file, label, uploadOk, dbOk, removeOk) )
      ]_vars

\* C19 witness: the doctor's upload for a patient that does not exist was just
\* answered 404 and object storage has never been written to.
C19_Witness ==
    /\ last.op = "POST /diagnostics/:patientId"
    /\ last.status = 404
    /\ last.role = "doctor"
    /\ blobs = {}
    /\ nextId.blobs = 1

-----------------------------------------------------------------------------
(* The authorization gate in front of the appointment routes *)

InitGate ==
    /\ variant \in Variants
    /\ ProvisionedClinic

\* A request to one of the routes behind the gate, carrying tok.
GatedRequest(tok) ==
    \/ \E p \in PatientIdInputs, d \in Dates, t \in Times : PostAppointment(tok, p, d, t)
    \/ \E id \in ApptIds, s \in {"completed", "cancelled"} : PutAppointment(tok, id, s)
    \/ \E id \in ApptIds : DeleteAppointment(tok, id)

NextGate ==
    \/ \E tok \in Credentials, p \in PatientIdInputs, d \in Dates, t \in Times :
            PostAppointment(tok, p, d, t)
    \/ \E tok \in Credentials, id \in ApptIds, s \in {"completed", "cancelled"} :
            PutAppointment(tok, id, s)
    \/ \E tok \in Credentials, id \in ApptIds : DeleteAppointment(tok, id)

SpecGate == InitGate /\ [][NextGate]_vars

\* C20: a request without a credential, and a request whose credential is
\* invalid or expired, is answered 401; no principal is attached and the
\* handler behind the gate does not run, so nothing is written.
C20_GateRejectsUnauthenticated ==
    [][\A tok \in {NoToken, BadToken} :
        GatedRequest(tok)
            => ( /\ ~authenticateToken(tok).ok
                 /\ authenticateToken(tok).user = NoUser
                 /\ last'.status = 401
                 /\ last'.role = "none"
                 /\ UNCHANGED <<users, profiles, patients, appointments, fees,
                                diagnostics, blobs, nextId>> )
      ]_vars

-----------------------------------------------------------------------------
(* The life of a patient record: signup, creation, approval, update, removal, *)
(* with store steps that may fail                                             *)

InitLifecycle ==
    /\ variant \in {"users", "auth"}
    /\ EmptyStore

NextLifecycle ==
    \/ \E profileOk \in BOOLEAN, patientOk \in BOOLEAN :
            Signup("Asha", "asha@mail.com", "secret1", profileOk, patientOk)
    \/ \E e \in {DoctorEmail, "asha@mail.com"}, pw \in {DoctorPassword, "secret1"} :
            Login(e, pw)
    \/ \E e \in {DoctorEmail, "ravi@mail.com"}, pw \in {DoctorPassword, "3210123"},
          role \in Roles :
            JwtLogin(e, pw, role)
    \/ \E tok \in tokens, e \in PatientEmailInputs,
          profileOk \in BOOLEAN, patientOk \in BOOLEAN :
            PostPatient(tok, "Ravi", 30, "9876543210", e, profileOk, patientOk)
    \/ \E tok \in tokens, id \in RecordIds : ApprovePatient(tok, id)
    \/ \E tok \in tokens, id \in RecordIds, n \in NameInputs : PutPatient(tok, id, n)
    \/ \E tok \in tokens, id \in RecordIds, deleteOk \in BOOLEAN :
            DeletePatient(tok, id, deleteOk)

SpecLifecycle == InitLifecycle /\ [][NextLifecycle]_vars

-----------------------------------------------------------------------------
(* Claims about the life of a patient record, checked under SpecLifecycle *)

\* C21: a doctor's PUT /patients/:id/approve on a pending patient answers 200
\* and changes that record's status to 'active' and nothing else; on a patient
\* that is active or does not exist it answers 404 and changes nothing. No
\* step takes a record from 'active' to 'pending', and a login with the right
\* password for an identity with a profile and an active record succeeds.
C21_ApprovalLifecycle ==
    [][ /\ \A tok \in tokens, id \in RecordIds :
            LET g == authenticateToken(tok) IN
            (g.ok /\ g.user.role = "doctor" /\ ApprovePatient(tok, id))
            => ( /\ IF id \in DOMAIN patients /\ patients[id].status = "pending"
                    THEN /\ last'.status = 200
                         /\ patients' = [patients EXCEPT ![id].status = "active"]
                    ELSE /\ last'.status = 404
                         /\ patients' = patients
                 /\ UNCHANGED <<users, profiles, appointments, fees, diagnostics,
                                blobs, tokens, nextId>> )
        /\ \A p \in DOMAIN patients \cap DOMAIN patients' :
            patients[p].status = "active" => patients'[p].status = "active"
        /\ \A e \in {"asha@mail.com"}, pw \in {"secret1"} :
            ( /\ \E u \in DOMAIN users :
                    /\ users[u].email = e
                    /\ users[u].password = pw
                    /\ u \in profiles
                    /\ \E p \in DOMAIN patients :
                            patients[p].user_id = u /\ patients[p].status = "active"
              /\ Login(e, pw) )
            => (last'.status = 200 /\ last'.token # NoToken)
      ]_vars

\* C21 witness: an identity that signed up has just logged in, its record
\* approved.
C21_Witness ==
    /\ last.op = "POST /auth/login"
    /\ last.status = 200
    /\ last.role = "patient"
    /\ last.token.sub \in DOMAIN users
    /\ users[last.token.sub].email = "asha@mail.com"
    /\ \E p \in DOMAIN patients :
            patients[p].user_id = last.token.sub /\ patients[p].status = "active"

-----------------------------------------------------------------------------
(* Booking on a clinic where one patient identity has no patient record *)

\* The clinic after the doctor added two patients and the insert of the second
\* patient record failed: identity 3 is a patient with no record, and its
\* token carries a null patientId.
UnlinkedClinic ==
    /\ users = (Doctor :> User("doctor", "jahnavi@clinic.com",
                                StoredPassword("jahnavi123")))
               @@ (2 :> User("patient", "a@patient.com", StoredPassword("3210123")))
               @@ (3 :> User("patient", "b@patient.com", StoredPassword("3211123")))
    /\ profiles = IF variant = "auth" THEN {Doctor, 2, 3} ELSE {}
    /\ patients = (1 :> Patient(2, "Asha", IF variant = "auth" THEN "active" ELSE "none"))
    /\ appointments = << >>
    /\ fees = << >>
    /\ diagnostics = << >>
    /\ blobs = {}
    /\ tokens = {TokenFor(u) : u \in {Doctor, 2, 3}}
    /\ nextId = [users |-> 4, patients |-> 2, appointments |-> 1, fees |-> 1,
                 diagnostics |-> 1, blobs |-> 1]
    /\ inflight = << >>
    /\ last = NoRequest

InitBooking ==
    /\ variant \in Variants
    /\ UnlinkedClinic

NextBooking ==
    \/ \E tok \in tokens, p \in PatientIdInputs,
          d \in Dates \cup {Missing}, t \in Times \cup {Missing} :
            PostAppointment(tok, p, d, t)
    \/ \E tok \in tokens, id \in ApptIds, s \in ApptStatuses \cup {"bogus"} :
            PutAppointment(tok, id, s)
    \/ \E tok \in tokens, id \in ApptIds : DeleteAppointment(tok, id)

SpecBooking == InitBooking /\ [][NextBooking]_vars

\* C22: an authenticated POST /appointments without a date or a time, or
\* with no resolvable target patient (a patient principal whose patientId is
\* null, a doctor's request without patient_id), is answered 400 and inserts
\* nothing, whether or not the slot is taken: it is never answered 409.
C22_ValidationBeforeConflict ==
    [][\A tok \in tokens, p \in PatientIdInputs,
          d \in Dates \cup {Missing}, t \in Times \cup {Missing} :
        LET g == authenticateToken(tok)
            target == IF g.user.role = "patient" THEN g.user.patientId ELSE p
        IN  ( /\ g.ok
              /\ d = Missing \/ t = Missing \/ target = NoId
              /\ PostAppointment(tok, p, d, t) )
            => ( /\ last'.status = 400
                 /\ appointments' = appointments
                 /\ nextId' = nextId )
      ]_vars

\* C22 witness: a patient principal's booking was just answered 400 while the
\* only slot there is holds a scheduled appointment and a patient principal
\* with a null patientId exists.
C22_Witness ==
    /\ last.op = "POST /appointments"
    /\ last.status = 400
    /\ last.role = "patient"
    /\ \E a \in DOMAIN appointments : appointments[a].status = "scheduled"
    /\ \E tok \in tokens :
        /\ authenticateToken(tok).user.role = "patient"
        /\ authenticateToken(tok).user.patientId = NoId

-----------------------------------------------------------------------------
(* The list routes: GET /appointments and GET /fees *)

\* The doctor's listing. SQLite: SELECT a.* ... FROM t a JOIN patients p ON
\* a.patient_id = p.id, an inner join. Supabase: select('*, patients(name,
\* phone)'), an embedded resource, which keeps rows without a match.
DoctorRows(table) ==
    IF variant = "sqlite"
    THEN {r \in DOMAIN table : table[r].patient_id \in DOMAIN patients}
    ELSE DOMAIN table

\* The patient's listing: WHERE patient_id = ? / .eq('patient_id', patientId)
PatientRows(table, patientId) ==
    {r \in DOMAIN table : table[r].patient_id = patientId}

\* The status of the patient's listing. A null patientId compares equal to no
\* row in SQLite; the Supabase store refuses the filter eq.null on an id column
\* and the handler throws the error it is handed.
PatientRowsStatus(patientId) ==
    IF patientId = NoId /\ variant # "sqlite" THEN 500 ELSE 200

\* The body of both list handlers over their table.
ListRows(op, tok, table) ==
    LET g == authenticateToken(tok)
        req == Request(op, g.user)
    IN  /\ IF ~g.ok THEN last' = [req EXCEPT !.status = g.status]
           ELSE IF g.user.role = "doctor" THEN
                last' = [req EXCEPT !.status = 200, !.rows = DoctorRows(table)]
           ELSE IF PatientRowsStatus(g.user.patientId) # 200 THEN
                last' = [req EXCEPT !.status = PatientRowsStatus(g.user.patientId)]
           ELSE last' = [req EXCEPT !.status = 200,
                                    !.rows = PatientRows(table, g.user.patientId)]
        /\ UNCHANGED <<variant, users, profiles, patients, appointments, fees,
                       diagnostics, blobs, tokens, nextId, inflight>>

\* GET /appointments
GetAppointments(tok) == ListRows("GET /appointments", tok, appointments)

\* GET /fees
GetFees(tok) == ListRows("GET /fees", tok, fees)

\* The clinic after the doctor added three patients, the insert of the third
\* patient record failed, and everyone logged in.
ListClinic ==
    /\ users = (Doctor :> User("doctor", "jahnavi@clinic.com",
                                StoredPassword("jahnavi123")))
               @@ (2 :> User("patient", "a@patient.com", StoredPassword("3210123")))
               @@ (3 :> User("patient", "b@patient.com", StoredPassword("3211123")))
               @@ (4 :> User("patient", "c@patient.com", StoredPassword("3212123")))
    /\ profiles = IF variant = "auth" THEN {Doctor, 2, 3, 4} ELSE {}
    /\ patients = (1 :> Patient(2, "Asha", IF variant = "auth" THEN "active" ELSE "none"))
                  @@ (2 :> Patient(3, "Bala", IF variant = "auth" THEN "active" ELSE "none"))
    /\ appointments = << >>
    /\ fees = << >>
    /\ diagnostics = << >>
    /\ blobs = {}
    /\ tokens = {TokenFor(u) : u \in {Doctor, 2, 3, 4}}
    /\ nextId = [users |-> 5, patients |-> 3, appointments |-> 1, fees |-> 1,
                 diagnostics |-> 1, blobs |-> 1]
    /\ inflight = << >>
    /\ last = NoRequest

InitLists ==
    /\ variant \in Variants
    /\ ListClinic

NextLists ==
    \/ \E tok \in tokens, p \in PatientIdInputs, d \in Dates, t \in Times :
            PostAppointment(tok, p, d, t)
    \/ \E tok \in tokens, id \in ApptIds : PutAppointment(tok, id, "completed")
    \/ \E tok \in tokens, p \in PatientIdInputs :
            PostFee(tok, p, JsNum(50), "Consultation", "paid")
    \/ \E tok \in Credentials : GetAppointments(tok)
    \/ \E tok \in Credentials : GetFees(tok)

SpecLists == InitLists /\ [][NextLists]_vars

\* What the claim says a list request of an admitted principal returns from a
\* table: a patient exactly the rows of its own patientId (none when it is
\* null), a doctor every row.
ListedAsClaimed(tok, table) ==
    LET g == authenticateToken(tok)
    IN  /\ last'.status = 200
        /\ g.user.role = "patient" =>
             last'.rows = {r \in DOMAIN table :
                            /\ g.user.patientId # NoId
                            /\ table[r].patient_id = g.user.patientId}
        /\ g.user.role = "doctor" => last'.rows = DOMAIN table

\* C23: GET /appointments and GET /fees return to a patient principal exactly
\* the rows of its own patientId (an empty list when that is null), never a
\* row of another patient, and to a doctor every row.
C23_ListsScopedToPrincipal ==
    [][\A tok \in tokens :
        /\ (authenticateToken(tok).ok /\ GetAppointments(tok))
              => ListedAsClaimed(tok, appointments)
        /\ (authenticateToken(tok).ok /\ GetFees(tok))
              => ListedAsClaimed(tok, fees)
      ]_vars

\* C24: an identity owns at most one patient record, whatever signups, doctor
\* creations, approvals, updates and deletions have happened.
C24_OnePatientPerIdentity ==
    \A p, q \in DOMAIN patients :
        patients[p].user_id = patients[q].user_id => p = q

\* C24 witness: two identities own a patient record each, and a patient was
\* just updated.
C24_Witness ==
    /\ Cardinality(DOMAIN patients) = 2
    /\ Cardinality({patients[p].user_id : p \in DOMAIN patients}) = 2
    /\ \A p \in DOMAIN patients : patients[p].user_id \in DOMAIN users
    /\ last.op = "PUT /patients/:id"
    /\ last.status = 200

\* C25: an appointment is created 'scheduled'; its status is always one of
\* scheduled, completed, cancelled; the status of a row changes only in a
\* doctor's successful PUT /appointments/:id; and a doctor's PUT with any
\* other status is answered 400 and leaves the rows as they were.
C25_AppointmentStatus ==
    [][ /\ \A a \in DOMAIN appointments' :
              /\ appointments'[a].status \in ApptStatuses
              /\ a \notin DOMAIN appointments
                    => appointments'[a].status = "scheduled"
              /\ (a \in DOMAIN appointments
                    /\ appointments'[a].status # appointments[a].status)
                    => /\ last'.op = "PUT /appointments/:id"
                       /\ last'.role = "doctor"
                       /\ last'.status = 200
        /\ \A tok \in tokens, id \in ApptIds :
              ( /\ authenticateToken(tok).user.role = "doctor"
                /\ PutAppointment(tok, id, "bogus") )
              => (last'.status = 400 /\ appointments' = appointments)
      ]_vars

\* C25 witness: a doctor's PUT was just answered 400 while a row that an
\* earlier PUT moved out of 'scheduled' is still as that PUT left it.
C25_Witness ==
    /\ last.op = "PUT /appointments/:id"
    /\ last.role = "doctor"
    /\ last.status = 400
    /\ \E a \in DOMAIN appointments : appointments[a].status = "cancelled"

\* C26: whenever POST /auth/signup answers 201, a pending patient record
\* linked to the new identity exists, also when the profile insert or the
\* patient insert was refused; and a patient identity that signed up and has
\* no approved record is never answered 200 at login.
C26_SignupLeavesPendingRecord ==
    [][ /\ \A profileOk \in BOOLEAN, patientOk \in BOOLEAN :
            ( /\ Signup("Asha", "asha@mail.com", "secret1", profileOk, patientOk)
              /\ last'.status = 201 )
            => \E p \in DOMAIN patients' :
                    /\ patients'[p].user_id = nextId.users
                    /\ patients'[p].status = "pending"
        /\ ( /\ Login("asha@mail.com", "secret1")
             /\ ~ \E p \in DOMAIN patients :
                    /\ patients[p].user_id \in UsersWithEmail("asha@mail.com")
                    /\ patients[p].status = "active" )
           => last'.status # 200
      ]_vars

\* C27: the doctor's patient creation is atomic: after POST /patients has
\* answered, either the new identity and a patient record linked to it both
\* exist, or neither was created (so that the email stays usable).
C27_CreationAtomic ==
    [][\A tok \in tokens, e \in PatientEmailInputs,
          profileOk \in BOOLEAN, patientOk \in BOOLEAN :
        PostPatient(tok, "Ravi", 30, "9876543210", e, profileOk, patientOk)
        => \/ users' = users /\ patients' = patients
           \/ /\ nextId.users \in DOMAIN users' \ DOMAIN users
              /\ \E p \in DOMAIN patients' \ DOMAIN patients :
                    patients'[p].user_id = nextId.users
      ]_vars

\* C28: once the identity of a patient is deleted, the gate rejects every
\* request that carries a token issued to that identity.
C28_DeletedIdentityRejected ==
    \A tok \in tokens :
        tok.sub \notin DOMAIN users => ~authenticateToken(tok).ok

-----------------------------------------------------------------------------
(* Downloads on a clinic with two patients *)

InitDownload ==
    /\ variant = "auth"
    /\ ProvisionedClinic

NextDownload ==
    \/ \E tok \in tokens, p \in DOMAIN patients, file \in FileInputs,
          uploadOk \in BOOLEAN, dbOk \in BOOLEAN, removeOk \in BOOLEAN :
            UploadDiagnostic(tok, p, file, "X-Ray", uploadOk, dbOk, removeOk)
    \/ \E tok \in tokens, p \in DOMAIN patients, id \in RecordIds,
          removeOk \in BOOLEAN :
            DeleteDiagnostic(tok, p, id, removeOk, TRUE)
    \/ \E tok \in tokens, param \in PathParams : ListDiagnostics(tok, param)
    \/ \E tok \in Credentials, param \in PathParams, id \in RecordIds,
          signOk \in BOOLEAN :
            DownloadDiagnostic(tok, param, id, signOk)

SpecDownload == InitDownload /\ [][NextDownload]_vars

\* C29: the download route answers with a signed URL (200) only when the
\* principal is a doctor or the patient whose id is in the path, and the
\* diagnostic row with the requested id belongs to the patient in the path;
\* a patient who puts its own id in the path and asks for the diagnostic of
\* another patient is answered 404.
C29_DownloadScoped ==
    [][ last'.op = "GET /diagnostics/:patientId/:id/download" =>
        \A tok \in Credentials, param \in PathParams, id \in RecordIds,
          signOk \in BOOLEAN :
        LET g == authenticateToken(tok) IN
        DownloadDiagnostic(tok, param, id, signOk)
        => /\ last'.status = 200
                => /\ g.ok
                   /\ \/ g.user.role = "doctor"
                      \/ /\ g.user.patientId # NoId
                         /\ Numeral[g.user.patientId] = param
                   /\ id \in DOMAIN diagnostics
                   /\ Numeral[diagnostics[id].patient_id] = param
           /\ ( /\ g.ok
                /\ g.user.role = "patient"
                /\ g.user.patientId # NoId
                /\ Numeral[g.user.patientId] = param
                /\ id \in DOMAIN diagnostics
                /\ diagnostics[id].patient_id # g.user.patientId )
                => last'.status = 404
      ]_vars

\* C29 witness: a patient has just been answered 404 while the only
\* diagnostic there is belongs to the other patient and its blob is stored.
C29_Witness ==
    /\ last.op = "GET /diagnostics/:patientId/:id/download"
    /\ last.role = "patient"
    /\ last.status = 404
    /\ \E d \in DOMAIN diagnostics :
        /\ diagnostics[d].file_path \in blobs
        /\ \E tok \in tokens :
            /\ authenticateToken(tok).user.role = "patient"
            /\ authenticateToken(tok).user.patientId # NoId
            /\ authenticateToken(tok).user.patientId # diagnostics[d].patient_id

\* C30: every appointment and every fee references a patient record that
\* exists: a creation whose patient_id matches no patient inserts nothing, and
\* no deletion leaves a row behind without its patient.
C30_RowsReferenceExistingPatient ==
    /\ \A a \in DOMAIN appointments : appointments[a].patient_id \in DOMAIN patients
    /\ \A f \in DOMAIN fees : fees[f].patient_id \in DOMAIN patients

====
